---- MODULE Spec2Model ----
(***************************************************************************)
(* Model of benchmarking/framework/evaluator.py: the parallel evaluation   *)
(* of the unique queries of a benchmark dataset (BenchmarkEvaluator) and   *)
(* the metric functions it uses.                                           *)
(***************************************************************************)
EXTENDS Integers, Sequences, FiniteSets, TLC

\* ------------------------------------------------------------------ bounds
MaxRows == 3
MaxCpu == 2
MaxBatch == 2
MaxQueryRows == 2
MaxResults == 3
MaxItems == 3
MaxImageBatch == 2

\* --------------------------------------------------------- configuration
\* Column names handed out by the dataset loader.
get_query_column == "query"
get_query_id_column == "query_id"
get_relevance_column == "relevant"
get_metadata_columns == <<"category">>

\* BenchmarkEvaluator.__init__: the default ranking columns, in preference order.
score_columns == <<"rerank_score", "clip_score", "score", "distance">>

\* INQUIREConfig: the WORKERS setting when the environment does not set it.
DefaultWorkers == 5

\* The value pandas stores where a record lacks a field (float NaN).  It is
\* truthy, differs from every real value and is rejected by ndcg_score.
NaN == 0 - 1

Range(s) == {s[i] : i \in 1..Len(s)}

Min(a, b) == IF a <= b THEN a ELSE b

\* ------------------------------------------------------------ data frames
\* A table is [cols: set of column names, rows: sequence of functions over cols].
DataFrame(cols, rows) == [cols |-> cols, rows |-> rows]

EmptyDataFrame == DataFrame({}, <<>>)

\* DataFrame.empty: some axis has length zero.
IsEmpty(df) == Len(df.rows) = 0 \/ df.cols = {}

\* QueryResult.to_dataframe: pd.DataFrame(list of dicts); the columns are the
\* union of the keys, a key a record lacks is filled with NaN.
to_dataframe(results) ==
    LET cols == UNION {DOMAIN results[i] : i \in 1..Len(results)}
    IN  DataFrame(cols,
                  [i \in 1..Len(results) |->
                      [c \in cols |-> IF c \in DOMAIN results[i]
                                      THEN results[i][c] ELSE NaN]])

\* Mutant of AddTracking: a record is tagged with the query id it carries itself.
AddTrackingOwnId(df, query_id, query) ==
    DataFrame(df.cols \cup {"queried_on_query_id", "queried_on_query"},
              [i \in 1..Len(df.rows) |->
                  [queried_on_query_id |->
                       IF get_query_id_column \in df.cols
                       THEN df.rows[i][get_query_id_column] ELSE query_id,
                   queried_on_query |-> query]
                  @@ df.rows[i]])

\* results_df[name] = value for the two tracking columns (lines 132-133).
AddTracking(df, query_id, query) ==
    DataFrame(df.cols \cup {"queried_on_query_id", "queried_on_query"},
              [i \in 1..Len(df.rows) |->
                  [queried_on_query_id |-> query_id, queried_on_query |-> query]
                  @@ df.rows[i]])

\* Mutants of drop_duplicates: no row is dropped; the last row of a value is kept.
drop_duplicates_none(rows, col) == rows

drop_duplicates_keep_last(rows, col) ==
    LET keep(i) == \A j \in (i + 1)..Len(rows) : rows[j][col] # rows[i][col]
        F[i \in 0..Len(rows)] ==
            IF i = 0 THEN <<>>
            ELSE IF keep(i) THEN Append(F[i - 1], rows[i]) ELSE F[i - 1]
    IN  F[Len(rows)]

\* Mutant of drop_duplicates: the first rows are kept, latest first.
drop_duplicates_reversed(rows, col) ==
    LET keep(i) == \A j \in 1..(i - 1) : rows[j][col] # rows[i][col]
        F[i \in 0..Len(rows)] ==
            IF i = 0 THEN <<>>
            ELSE IF keep(i) THEN <<rows[i]>> \o F[i - 1] ELSE F[i - 1]
    IN  F[Len(rows)]

\* DataFrame.drop_duplicates(subset=[col]): the first row of every value of col,
\* in the order of the input.
drop_duplicates(rows, col) ==
    LET keep(i) == \A j \in 1..(i - 1) : rows[j][col] # rows[i][col]
        F[i \in 0..Len(rows)] ==
            IF i = 0 THEN <<>>
            ELSE IF keep(i) THEN Append(F[i - 1], rows[i]) ELSE F[i - 1]
    IN  F[Len(rows)]

\* pd.concat(results, ignore_index=True) over the collected per-query tables.
RECURSIVE concat(_)
concat(dfs) ==
    IF dfs = <<>> THEN <<>>
    ELSE dfs[1].rows \o concat(Tail(dfs))

\* ------------------------------------------------------------- arithmetic
RECURSIVE GCD(_, _)
GCD(a, b) == IF b = 0 THEN a ELSE GCD(b, a % b)

\* A float result, kept exact as a fraction in lowest terms.
Zero == [num |-> 0, den |-> 1]

\* Mutant of Ratio: a zero denominator is replaced by 1 instead of giving 0.0.
RatioFloorDenominator(a, b) ==
    IF a = 0 THEN [num |-> 0, den |-> 1]
    ELSE LET d == IF b = 0 THEN 1 ELSE b
             g == GCD(a, d)
         IN  [num |-> a \div g, den |-> d \div g]

Ratio(a, b) ==
    IF a = 0 \/ b = 0 THEN Zero
    ELSE LET g == GCD(a, b) IN [num |-> a \div g, den |-> b \div g]

RECURSIVE Sum(_, _)
Sum(f, S) ==
    IF S = {} THEN 0
    ELSE LET x == CHOOSE y \in S : TRUE IN f[x] + Sum(f, S \ {x})

RECURSIVE Factorial(_)
Factorial(n) == IF n <= 1 THEN 1 ELSE n * Factorial(n - 1)

\* 1 / log2(i + 1), scaled by 100000.
Discount(i) ==
    CASE i = 1 -> 100000
      [] i = 2 -> 63093
      [] i = 3 -> 50000
      [] i = 4 -> 43068
      [] i = 5 -> 38685
      [] OTHER -> 35621

\* ---------------------------------------------------------------- metrics
\* A call either returns a value or raises.
Returned(v) == [raised |-> FALSE, value |-> v]

Raised(e) == [raised |-> TRUE, exc |-> e]

\* DataFrame.sort_values(col, ascending=False) on a short table: descending,
\* rows of equal value keep their order, NaN goes last.
sort_values(rows, col) ==
    LET n == Len(rows)
        rank(i) == 1 + Cardinality({j \in 1..n :
                        \/ rows[j][col] > rows[i][col]
                        \/ rows[j][col] = rows[i][col] /\ j < i})
    IN  [p \in 1..n |-> rows[CHOOSE i \in 1..n : rank(i) = p]]

\* Mutant of ndcg_score: ties are ignored (ignore_ties=True), the DCG is taken
\* over the items in the order they are given.
ndcg_score_ignore_ties(y_true, y_score) ==
    LET n == Len(y_true)
        I == 1..n
        dcg == Sum([j \in I |-> y_true[j] * Discount(j)], I)
        ideal(j) == 1 + Cardinality({k \in I :
                        \/ y_true[k] > y_true[j]
                        \/ y_true[k] = y_true[j] /\ k < j})
        idcg == Sum([j \in I |-> y_true[j] * Discount(ideal(j))], I)
    IN  IF \E j \in I : y_true[j] = NaN \/ y_score[j] = NaN
        THEN Raised("ValueError")
        ELSE IF idcg = 0 THEN Returned(Zero)
        ELSE Returned(Ratio(dcg, idcg))

\* Mutant of ndcg_score: the items are ranked by ascending score.
ndcg_score_ascending(y_true, y_score) ==
    LET n == Len(y_true)
        I == 1..n
        above(v) == Cardinality({j \in I : y_score[j] < v})
        size(v) == Cardinality({j \in I : y_score[j] = v})
        relsum(v) == Sum(y_true, {j \in I : y_score[j] = v})
        discsum(v) == Sum([i \in I |-> Discount(i)],
                          (above(v) + 1)..(above(v) + size(v)))
        vals == {y_score[j] : j \in I}
        dcg == Sum([v \in vals |->
                        relsum(v) * discsum(v) * (Factorial(n) \div size(v))],
                   vals)
        ideal(j) == 1 + Cardinality({k \in I :
                        \/ y_true[k] > y_true[j]
                        \/ y_true[k] = y_true[j] /\ k < j})
        idcg == Sum([j \in I |-> y_true[j] * Discount(ideal(j)) * Factorial(n)], I)
    IN  IF \E j \in I : y_true[j] = NaN \/ y_score[j] = NaN
        THEN Raised("ValueError")
        ELSE IF idcg = 0 THEN Returned(Zero)
        ELSE Returned(Ratio(dcg, idcg))

\* sklearn.metrics.ndcg_score on one sample: both arrays must be finite; the
\* DCG averages the gain over items of equal score, the ideal DCG ranks the
\* labels in descending order, an all-irrelevant sample scores 0.
ndcg_score(y_true, y_score) ==
    LET n == Len(y_true)
        I == 1..n
        above(v) == Cardinality({j \in I : y_score[j] > v})
        size(v) == Cardinality({j \in I : y_score[j] = v})
        relsum(v) == Sum(y_true, {j \in I : y_score[j] = v})
        discsum(v) == Sum([i \in I |-> Discount(i)],
                          (above(v) + 1)..(above(v) + size(v)))
        vals == {y_score[j] : j \in I}
        dcg == Sum([v \in vals |->
                        relsum(v) * discsum(v) * (Factorial(n) \div size(v))],
                   vals)
        ideal(j) == 1 + Cardinality({k \in I :
                        \/ y_true[k] > y_true[j]
                        \/ y_true[k] = y_true[j] /\ k < j})
        idcg == Sum([j \in I |-> y_true[j] * Discount(ideal(j)) * Factorial(n)], I)
    IN  IF \E j \in I : y_true[j] = NaN \/ y_score[j] = NaN
        THEN Raised("ValueError")
        ELSE IF idcg = 0 THEN Returned(Zero)
        ELSE Returned(Ratio(dcg, idcg))

\* Mutant of compute_ndcg: a single result is scored like any other result set.
compute_ndcg_single(df, relevance_col, sortby) ==
    IF IsEmpty(df) THEN Returned(Zero)
    ELSE LET df_sorted == sort_values(df.rows, sortby)
         IN  IF relevance_col \notin df.cols THEN Returned(Zero)
             ELSE ndcg_score([i \in 1..Len(df_sorted) |-> df_sorted[i][relevance_col]],
                             [i \in 1..Len(df_sorted) |-> df_sorted[i][sortby]])

\* compute_ndcg (lines 30-56).
compute_ndcg(df, relevance_col, sortby) ==
    IF IsEmpty(df) \/ Len(df.rows) < 2 THEN Returned(Zero)
    ELSE LET df_sorted == sort_values(df.rows, sortby)
         IN  IF relevance_col \notin df.cols THEN Returned(Zero)
             ELSE ndcg_score([i \in 1..Len(df_sorted) |-> df_sorted[i][relevance_col]],
                             [i \in 1..Len(df_sorted) |-> df_sorted[i][sortby]])

\* --------------------------------------------------------- evaluate_query
\* A response of the vector database: the call raises, or returns a list of
\* records.
SearchRaises == [raises |-> TRUE, results |-> <<>>]

SearchReturns(results) == [raises |-> FALSE, results |-> results]

\* Lines 118-133: the table of one query's results, with the tracking columns.
ResultsDf(response, query_id, query) ==
    AddTracking(IF response.raises THEN EmptyDataFrame
                ELSE to_dataframe(response.results),
                query_id, query)

\* Lines 154-156 and 215-217: query_row.get(col, "") for the metadata columns.
Metadata(query_row) ==
    [c \in Range(get_metadata_columns) |->
        IF c \in DOMAIN query_row THEN query_row[c] ELSE ""]

\* Mutant of DefaultStats: the query without results is counted as one
\* incorrectly returned record.
DefaultStatsCountsMiss(query_row) ==
    Metadata(query_row) @@
    [query_id |-> query_row[get_query_id_column],
     query |-> query_row[get_query_column],
     total_results |-> 0,
     correctly_returned |-> 0,
     incorrectly_returned |-> 1,
     relevant_results |-> 0,
     non_relevant_results |-> 0,
     accuracy |-> Zero,
     precision |-> Zero,
     recall |-> Zero,
     NDCG |-> Zero]

\* Lines 139-156: the statistics row of a query without results.
DefaultStats(query_row) ==
    Metadata(query_row) @@
    [query_id |-> query_row[get_query_id_column],
     query |-> query_row[get_query_column],
     total_results |-> 0,
     correctly_returned |-> 0,
     incorrectly_returned |-> 0,
     relevant_results |-> 0,
     non_relevant_results |-> 0,
     accuracy |-> Zero,
     precision |-> Zero,
     recall |-> Zero,
     NDCG |-> Zero]

\* Mutant of FirstScoreColumn: the last such column of score_columns.
LastScoreColumn(cols, excluded) ==
    LET C == {i \in 1..Len(score_columns) :
                 score_columns[i] \in cols /\ score_columns[i] # excluded}
    IN  IF C = {} THEN 0 ELSE CHOOSE i \in C : \A j \in C : i >= j

\* Lines 185-188 and 191-194: the first column of score_columns that the results
\* have and that is not `excluded`; 0 when there is none.
FirstScoreColumn(cols, excluded) ==
    LET C == {i \in 1..Len(score_columns) :
                 score_columns[i] \in cols /\ score_columns[i] # excluded}
    IN  IF C = {} THEN 0 ELSE CHOOSE i \in C : \A j \in C : i <= j

\* Mutant of RelevantInDataset: the labels of all dataset rows are summed,
\* whatever their query id.
RelevantInAnyQuery(dataset, query_id) ==
    Sum([i \in 1..Len(dataset.rows) |-> dataset.rows[i][get_relevance_column]],
        1..Len(dataset.rows))

\* Line 178: the relevance labels of the dataset rows of this query id, summed.
RelevantInDataset(dataset, query_id) ==
    LET I == {i \in 1..Len(dataset.rows) :
                 dataset.rows[i][get_query_id_column] = query_id}
    IN  Sum([i \in I |-> dataset.rows[i][get_relevance_column]], I)

\* Mutant of ResultStats: the secondary NDCG is reported whatever its value.
ResultStatsAlwaysSecondary(query_row, dataset, results_df) ==
    LET query_id == query_row[get_query_id_column]
        rows == results_df.rows
        total_results == Len(rows)
        correct_retrieval == Cardinality({i \in 1..total_results :
            /\ get_query_id_column \in results_df.cols
            /\ rows[i]["queried_on_query_id"] = rows[i][get_query_id_column]})
        relevant_results == Cardinality({i \in 1..total_results :
            /\ get_relevance_column \in results_df.cols
            /\ rows[i][get_relevance_column] # 0})
        relevant_in_dataset == RelevantInDataset(dataset, query_id)
        first == FirstScoreColumn(results_df.cols, "")
        second == FirstScoreColumn(results_df.cols, score_columns[1])
        ndcg == IF first = 0 THEN Returned(Zero)
                ELSE compute_ndcg(results_df, get_relevance_column, score_columns[first])
        secondary_ndcg ==
                IF second = 0 THEN Returned(Zero)
                ELSE compute_ndcg(results_df, get_relevance_column, score_columns[second])
        query_stats ==
            [query_id |-> query_id,
             query |-> query_row[get_query_column],
             total_results |-> total_results,
             correctly_returned |-> correct_retrieval,
             incorrectly_returned |-> total_results - correct_retrieval,
             relevant_results |-> relevant_results,
             non_relevant_results |-> total_results - relevant_results,
             accuracy |-> Ratio(correct_retrieval, total_results),
             precision |-> Ratio(relevant_results, total_results),
             recall |-> Ratio(relevant_results, relevant_in_dataset),
             NDCG |-> ndcg.value]
    IN  IF get_relevance_column \notin dataset.cols THEN Raised("KeyError")
        ELSE IF ndcg.raised THEN ndcg
        ELSE IF secondary_ndcg.raised THEN secondary_ndcg
        ELSE Returned(
            [df |-> results_df,
             stats |-> Metadata(query_row) @@
                       [secondary_NDCG |-> secondary_ndcg.value] @@ query_stats])

\* Lines 160-219: the statistics of a query that has results.
ResultStats(query_row, dataset, results_df) ==
    LET query_id == query_row[get_query_id_column]
        rows == results_df.rows
        total_results == Len(rows)
        correct_retrieval == Cardinality({i \in 1..total_results :
            /\ get_query_id_column \in results_df.cols
            /\ rows[i]["queried_on_query_id"] = rows[i][get_query_id_column]})
        relevant_results == Cardinality({i \in 1..total_results :
            /\ get_relevance_column \in results_df.cols
            /\ rows[i][get_relevance_column] # 0})
        relevant_in_dataset == RelevantInDataset(dataset, query_id)
        first == FirstScoreColumn(results_df.cols, "")
        second == FirstScoreColumn(results_df.cols, score_columns[1])
        ndcg == IF first = 0 THEN Returned(Zero)
                ELSE compute_ndcg(results_df, get_relevance_column, score_columns[first])
        secondary_ndcg ==
                IF second = 0 THEN Returned(Zero)
                ELSE compute_ndcg(results_df, get_relevance_column, score_columns[second])
        query_stats ==
            [query_id |-> query_id,
             query |-> query_row[get_query_column],
             total_results |-> total_results,
             correctly_returned |-> correct_retrieval,
             incorrectly_returned |-> total_results - correct_retrieval,
             relevant_results |-> relevant_results,
             non_relevant_results |-> total_results - relevant_results,
             accuracy |-> Ratio(correct_retrieval, total_results),
             precision |-> Ratio(relevant_results, total_results),
             recall |-> Ratio(relevant_results, relevant_in_dataset),
             NDCG |-> ndcg.value]
    IN  IF get_relevance_column \notin dataset.cols THEN Raised("KeyError")
        ELSE IF ndcg.raised THEN ndcg
        ELSE IF secondary_ndcg.raised THEN secondary_ndcg
        ELSE Returned(
            [df |-> results_df,
             stats |-> Metadata(query_row) @@
                       (IF secondary_ndcg.value.num > 0
                        THEN [secondary_NDCG |-> secondary_ndcg.value] @@ query_stats
                        ELSE query_stats)])

\* Lines 135-219: what evaluate_query does once the search has answered.
EvaluateResults(query_row, dataset, results_df) ==
    IF IsEmpty(results_df)
    THEN Returned([df |-> results_df, stats |-> DefaultStats(query_row)])
    ELSE ResultStats(query_row, dataset, results_df)

\* ------------------------------------------------------------------ inputs
Texts == {"cat", "dog"}

DatasetCols == {get_query_column, get_query_id_column, get_relevance_column, "category"}

\* Dataset rows: one row per (query, candidate item).  The rows cover a query
\* with relevant and irrelevant items, a second query, two query texts under
\* one query id, and one query text under two query ids.
RowDomain ==
    { [query |-> "cat", query_id |-> 1, relevant |-> 1, category |-> "a"],
      [query |-> "cat", query_id |-> 1, relevant |-> 0, category |-> "b"],
      [query |-> "dog", query_id |-> 2, relevant |-> 1, category |-> "b"],
      [query |-> "dog", query_id |-> 1, relevant |-> 0, category |-> "a"],
      [query |-> "cat", query_id |-> 2, relevant |-> 1, category |-> "a"] }

Datasets == UNION {[1..n -> RowDomain] : n \in 0..MaxRows}

\* A data frame of the rows without the columns in `dropped`.
DatasetFrame(rows, dropped) ==
    DataFrame(DatasetCols \ dropped,
              [i \in 1..Len(rows) |-> [c \in DatasetCols \ dropped |-> rows[i][c]]])

\* What the vector database may answer: an error, no record, one record, two
\* records ranked by two score columns (one of another query), and two records
\* of which one lacks its score.
Responses ==
    { SearchRaises,
      SearchReturns(<<>>),
      SearchReturns(<<[query_id |-> 1, relevant |-> 1, score |-> 2]>>),
      SearchReturns(<<[query_id |-> 1, relevant |-> 1, rerank_score |-> 1, score |-> 2],
                      [query_id |-> 2, relevant |-> 0, rerank_score |-> 2, score |-> 1]>>),
      SearchReturns(<<[query_id |-> 1, relevant |-> 1, score |-> 2],
                      [query_id |-> 1, relevant |-> 0]>>) }

\* ------------------------------------------------------------------- state
VARIABLES
    dataset,          \* the data frame evaluate_queries is given
    cpu_count,        \* os.cpu_count()
    workers,          \* the configured WORKERS value
    batch_size,       \* QUERY_BATCH_SIZE
    pc,               \* where the thread running evaluate_queries is
    unique_queries,   \* dataset.drop_duplicates(subset=[query_col])
    pos,              \* how many unique queries batched() has handed out
    batch,            \* the current batch: positions in unique_queries
    futures,          \* the futures of the current batch, in submission order
    collected,        \* how many futures of the current batch were collected
    task,             \* per unique query: the state of its unit of work
    search_calls,     \* per query text: how often vector_db.search was invoked
    responses,        \* per query text: the answers the vector database gave
    results,          \* the list `results`
    query_stats,      \* the list `query_stats`
    all_results_df,   \* the first table returned
    query_stats_df,   \* the second table returned
    finished_order,   \* history: the units of work in the order they ended
    yielded,          \* history: the batches a consumer of batched() was given
    items,            \* load_data: the dataset items (can the item be processed?)
    WORKERS,          \* load_data: the WORKERS setting
    IMAGE_BATCH_SIZE, \* load_data: the IMAGE_BATCH_SIZE setting
    load_pc,          \* load_data: where the loading thread is
    process_futures,  \* load_data: per batch, its items, state and processed list
    all_processed,    \* load_data: the list `all_processed`
    insert_pos,       \* insert_data: how many entries of `data` the loop has taken
    inserted_count,   \* insert_data: the counter `inserted_count`
    collection,       \* the objects added to the collection, in order
    excessive_errors, \* insert_data: batch.number_errors > 5
    inserted          \* load_data: what insert_data returned

batched_vars == <<yielded>>

load_vars == <<items, WORKERS, IMAGE_BATCH_SIZE, load_pc, process_futures,
               all_processed, insert_pos, inserted_count, collection,
               excessive_errors, inserted>>

eval_vars == <<dataset, cpu_count, workers, batch_size, pc, unique_queries, pos, batch,
               futures, collected, task, search_calls, responses, results, query_stats,
               all_results_df, query_stats_df, finished_order>>

vars == <<dataset, cpu_count, workers, batch_size, pc, unique_queries, pos, batch,
          futures, collected, task, search_calls, responses, results, query_stats,
          all_results_df, query_stats_df, finished_order, yielded, items, WORKERS,
          IMAGE_BATCH_SIZE, load_pc, process_futures, all_processed, insert_pos,
          inserted_count, collection, excessive_errors, inserted>>

inputs == <<dataset, cpu_count, workers, batch_size>>

Unset == Raised("unset")

\* No consumer of batched() other than evaluate_queries, and no data loading.
NotLoading ==
    /\ yielded = <<>>
    /\ items = <<>>
    /\ WORKERS = 0
    /\ IMAGE_BATCH_SIZE = 1
    /\ load_pc = "idle"
    /\ process_futures = <<>>
    /\ all_processed = <<>>
    /\ insert_pos = 0
    /\ inserted_count = 0
    /\ collection = <<>>
    /\ excessive_errors = FALSE
    /\ inserted = 0

InitRun(drops, workerValues) ==
    /\ \E rows \in Datasets, dropped \in drops : dataset = DatasetFrame(rows, dropped)
    /\ cpu_count \in 1..MaxCpu
    /\ workers \in workerValues
    /\ batch_size \in 1..MaxBatch
    /\ pc = "start"
    /\ unique_queries = <<>>
    /\ pos = 0
    /\ batch = <<>>
    /\ futures = <<>>
    /\ collected = 0
    /\ task = <<>>
    /\ search_calls = [q \in Texts |-> 0]
    /\ responses = [q \in Texts |-> <<>>]
    /\ results = <<>>
    /\ query_stats = <<>>
    /\ all_results_df = <<>>
    /\ query_stats_df = <<>>
    /\ finished_order = <<>>
    /\ NotLoading

Init == InitRun({{}}, {DefaultWorkers})

\* ------------------------------------------------------- evaluate_queries
\* Lines 232-249: the unique queries; a dataset without the query column makes
\* drop_duplicates raise KeyError.
Start ==
    /\ pc = "start"
    /\ IF get_query_column \notin dataset.cols
       THEN /\ pc' = "raised"
            /\ UNCHANGED <<unique_queries, task>>
       ELSE /\ unique_queries' = drop_duplicates(dataset.rows, get_query_column)
            /\ task' = [i \in 1..Len(unique_queries') |->
                           [state |-> "unsubmitted", outcome |-> Unset]]
            /\ pc' = "batching"
    /\ UNCHANGED <<batched_vars, load_vars, inputs, pos, batch, futures, collected, search_calls, responses,
                   results, query_stats, all_results_df, query_stats_df, finished_order>>

\* Mutant of NextBatchOf: all the remaining items form one batch.
NextBatchOfRest(n, from, size) == [k \in 1..(n - from) |-> from + k]

\* Mutant of NextBatchOf: a short last batch is filled up with the last item.
NextBatchOfPadded(n, from, size) ==
    [k \in 1..(IF from < n THEN size ELSE 0) |-> Min(from + k, n)]

\* batched (lines 25-27): the next batch_size items of the iterator.
NextBatchOf(n, from, size) == [k \in 1..Min(size, n - from) |-> from + k]

\* Mutant of NextBatch: the lists of collected results start anew with every
\* batch.
NextBatchResetting ==
    /\ pc = "batching"
    /\ pos < Len(unique_queries)
    /\ batch' = NextBatchOf(Len(unique_queries), pos, batch_size)
    /\ pos' = pos + Len(batch')
    /\ futures' = <<>>
    /\ collected' = 0
    /\ pc' = "submit"
    /\ results' = <<>>
    /\ query_stats' = <<>>
    /\ UNCHANGED <<batched_vars, load_vars, inputs, unique_queries, task, search_calls, responses,
                   all_results_df, query_stats_df, finished_order>>

\* Line 250: the loop takes the next batch.
NextBatch ==
    /\ pc = "batching"
    /\ pos < Len(unique_queries)
    /\ batch' = NextBatchOf(Len(unique_queries), pos, batch_size)
    /\ pos' = pos + Len(batch')
    /\ futures' = <<>>
    /\ collected' = 0
    /\ pc' = "submit"
    /\ UNCHANGED <<batched_vars, load_vars, inputs, unique_queries, task, search_calls, responses, results,
                   query_stats, all_results_df, query_stats_df, finished_order>>

\* Lines 252-255: executor.submit for the next query of the batch.
Submit ==
    /\ pc = "submit"
    /\ LET i == batch[Len(futures) + 1]
       IN  /\ task' = [task EXCEPT ![i].state = "queued"]
           /\ futures' = Append(futures, i)
    /\ pc' = IF Len(futures') = Len(batch) THEN "collect" ELSE "submit"
    /\ UNCHANGED <<batched_vars, load_vars, inputs, unique_queries, pos, batch, collected, search_calls,
                   responses, results, query_stats, all_results_df, query_stats_df, finished_order>>

\* Mutant of Collect: the futures of the batch are collected latest first.
CollectReversed ==
    /\ pc = "collect"
    /\ LET f == futures[Len(futures) - collected]
       IN  /\ task[f].state = "finished"
           /\ IF task[f].outcome.raised
              THEN /\ pc' = "unwind"
                   /\ UNCHANGED <<results, query_stats, collected>>
              ELSE /\ results' = Append(results, task[f].outcome.value.df)
                   /\ query_stats' = Append(query_stats, task[f].outcome.value.stats)
                   /\ collected' = collected + 1
                   /\ pc' = IF collected' = Len(futures) THEN "batching" ELSE "collect"
    /\ UNCHANGED <<batched_vars, load_vars, inputs, unique_queries, pos, batch, futures, task, search_calls,
                   responses, all_results_df, query_stats_df, finished_order>>

\* Lines 257-260: future.result() of the next future of the batch, in submission
\* order; it returns the pair or raises what the unit of work raised.
Collect ==
    /\ pc = "collect"
    /\ LET f == futures[collected + 1]
       IN  /\ task[f].state = "finished"
           /\ IF task[f].outcome.raised
              THEN /\ pc' = "unwind"
                   /\ UNCHANGED <<results, query_stats, collected>>
              ELSE /\ results' = Append(results, task[f].outcome.value.df)
                   /\ query_stats' = Append(query_stats, task[f].outcome.value.stats)
                   /\ collected' = collected + 1
                   /\ pc' = IF collected' = Len(futures) THEN "batching" ELSE "collect"
    /\ UNCHANGED <<batched_vars, load_vars, inputs, unique_queries, pos, batch, futures, task, search_calls,
                   responses, all_results_df, query_stats_df, finished_order>>

Busy(i) == task[i].state \in {"queued", "searching"}

\* Line 249, on an exception: the executor's __exit__ waits for every submitted
\* unit of work, then the exception leaves evaluate_queries.
Unwind ==
    /\ pc = "unwind"
    /\ \A i \in 1..Len(task) : ~Busy(i)
    /\ pc' = "raised"
    /\ UNCHANGED <<batched_vars, load_vars, inputs, unique_queries, pos, batch, futures, collected, task,
                   search_calls, responses, results, query_stats, all_results_df,
                   query_stats_df, finished_order>>

\* pd.concat refuses an empty list of tables.
pd_concat(dfs) == IF dfs = <<>> THEN Raised("ValueError") ELSE Returned(concat(dfs))

\* Mutant of AllResults: the list is concatenated without the emptiness test.
AllResultsUnguarded(dfs) == pd_concat(dfs)

\* Line 263: pd.concat(results, ignore_index=True) if results else pd.DataFrame().
AllResults(dfs) == IF dfs # <<>> THEN pd_concat(dfs) ELSE Returned(<<>>)

\* Lines 262-266: no batch is left; the two tables are built and returned.
Return ==
    /\ pc = "batching"
    /\ pos = Len(unique_queries)
    /\ LET all == AllResults(results)
       IN  IF all.raised
           THEN /\ pc' = "raised"
                /\ UNCHANGED <<all_results_df, query_stats_df>>
           ELSE /\ all_results_df' = all.value
                /\ query_stats_df' = query_stats
                /\ pc' = "done"
    /\ UNCHANGED <<batched_vars, load_vars, inputs, unique_queries, pos, batch, futures, collected, task,
                   search_calls, responses, results, query_stats, finished_order>>

\* ----------------------------------------------------------- worker pool
\* Mutant of max_workers: the executor's own default, min(32, cpu_count + 4).
max_workers_default == Min(32, cpu_count + 4)

\* ThreadPoolExecutor(max_workers=os.cpu_count()), line 249.
max_workers == cpu_count

Running == {i \in 1..Len(task) : task[i].state = "searching"}

\* Mutant of TaskRow: the unit of work reads the loop variable when it runs
\* (late binding) instead of the row it was submitted with.
TaskRowLateBinding(i) == unique_queries[batch[Len(futures)]]

\* Line 253: the query row bound to unit of work i when it was submitted.
TaskRow(i) == unique_queries[i]

\* A free worker takes the oldest queued unit of work and runs evaluate_query up
\* to the search call (lines 107-125).  Without the query id column line 113
\* raises KeyError.
TaskStart(i) ==
    /\ task[i].state = "queued"
    /\ \A j \in 1..(i - 1) : task[j].state # "queued"
    /\ Cardinality(Running) < max_workers
    /\ IF get_query_id_column \notin dataset.cols
       THEN /\ task' = [task EXCEPT ![i] = [state |-> "finished",
                                            outcome |-> Raised("KeyError")]]
            /\ finished_order' = Append(finished_order, i)
            /\ UNCHANGED search_calls
       ELSE /\ task' = [task EXCEPT ![i].state = "searching"]
            /\ search_calls' =
                  [search_calls EXCEPT ![TaskRow(i)[get_query_column]] = @ + 1]
            /\ UNCHANGED finished_order
    /\ UNCHANGED <<batched_vars, load_vars, inputs, pc, unique_queries, pos, batch, futures, collected,
                   responses, results, query_stats, all_results_df, query_stats_df>>

\* Mutant of evaluate_query: the exception of the search is not caught.
evaluate_query_uncaught(query_row, ds, response) ==
    IF response.raises THEN Raised("BackendError")
    ELSE EvaluateResults(query_row, ds,
                         ResultsDf(response, query_row[get_query_id_column],
                                   query_row[get_query_column]))

\* evaluate_query as a function of the query row, the dataset and the answer of
\* the vector database: an exception of the search is caught (lines 127-129).
evaluate_query(query_row, ds, response) ==
    EvaluateResults(query_row, ds,
                    ResultsDf(response, query_row[get_query_id_column],
                              query_row[get_query_column]))

\* Mutant of TaskFinish: the unit of work appends its table and its statistics
\* to the shared lists itself.
TaskFinishAppending(i) ==
    /\ task[i].state = "searching"
    /\ \E response \in Responses :
          LET outcome == evaluate_query(TaskRow(i), dataset, response)
          IN  /\ responses' =
                    [responses EXCEPT ![TaskRow(i)[get_query_column]] = Append(@, response)]
              /\ task' = [task EXCEPT ![i] = [state |-> "finished", outcome |-> outcome]]
              /\ IF outcome.raised
                 THEN UNCHANGED <<results, query_stats>>
                 ELSE /\ results' = Append(results, outcome.value.df)
                      /\ query_stats' = Append(query_stats, outcome.value.stats)
    /\ finished_order' = Append(finished_order, i)
    /\ UNCHANGED <<batched_vars, load_vars, inputs, pc, unique_queries, pos, batch, futures, collected,
                   search_calls, all_results_df, query_stats_df>>

\* The search answers and evaluate_query runs to its end (lines 126-219).
TaskFinish(i) ==
    /\ task[i].state = "searching"
    /\ \E response \in Responses :
          /\ responses' =
                [responses EXCEPT ![TaskRow(i)[get_query_column]] = Append(@, response)]
          /\ task' = [task EXCEPT ![i] =
                         [state |-> "finished",
                          outcome |-> evaluate_query(TaskRow(i), dataset, response)]]
    /\ finished_order' = Append(finished_order, i)
    /\ UNCHANGED <<batched_vars, load_vars, inputs, pc, unique_queries, pos, batch, futures, collected,
                   search_calls, results, query_stats, all_results_df, query_stats_df>>

Next ==
    \/ Start
    \/ NextBatch
    \/ Submit
    \/ Collect
    \/ Unwind
    \/ Return
    \/ \E i \in 1..Len(task) : TaskStart(i)
    \/ \E i \in 1..Len(task) : TaskFinish(i)

Spec == Init /\ [][Next]_vars

\* Datasets that may lack a required column.
InitMalformed ==
    InitRun({{}, {get_query_column}, {get_query_id_column}, {get_relevance_column}},
            {DefaultWorkers})

SpecMalformed == InitMalformed /\ [][Next]_vars

\* Runs under a WORKERS setting that is unset or zero (0) and one that is
\* positive (1).
InitWorkers == InitRun({{}}, {0, 1})

SpecWorkers == InitWorkers /\ [][Next]_vars

\* Runs on the largest pool, MaxCpu workers: the workers interleave most freely,
\* and since a free worker need not start at once, the runs of every smaller
\* pool are among these.
InitPool == Init /\ cpu_count = MaxCpu

SpecPool == InitPool /\ [][Next]_vars

\* ------------------------------------------- one query, any result set
\* Records a search may return: of the queried id or of another one, relevant
\* or not, ranked by one score column, by two, or by none, two records of equal
\* score and different label, and a record that has no relevance label.
ItemDomain ==
    { [query_id |-> 1, relevant |-> 1, score |-> 2],
      [query_id |-> 1, relevant |-> 0, score |-> 1],
      [query_id |-> 1, relevant |-> 0, score |-> 2],
      [query_id |-> 2, relevant |-> 1, rerank_score |-> 1, score |-> 2],
      [query_id |-> 1, relevant |-> 0, rerank_score |-> 2, score |-> 1],
      [query_id |-> 2, relevant |-> 1],
      [query_id |-> 1, score |-> 2] }

\* Every answer of at most MaxResults records, and the failing search.
QueryResponses ==
    {SearchRaises} \cup
    {SearchReturns(s) : s \in UNION {[1..n -> ItemDomain] : n \in 0..MaxResults}}

QueryDatasets == UNION {[1..n -> RowDomain] : n \in 1..MaxQueryRows}

\* One unit of work, for any unique query of the dataset, waiting for the
\* answer of its search (evaluate_query at line 120).
InitQuery ==
    /\ \E rows \in QueryDatasets :
          /\ dataset = DatasetFrame(rows, {})
          /\ unique_queries = drop_duplicates(dataset.rows, get_query_column)
    /\ \E i \in 1..Len(unique_queries) :
          /\ task = [j \in 1..Len(unique_queries) |->
                        [state |-> IF j = i THEN "searching" ELSE "unsubmitted",
                         outcome |-> Unset]]
          /\ search_calls = [q \in Texts |->
                                IF q = unique_queries[i][get_query_column] THEN 1 ELSE 0]
    /\ cpu_count = 1
    /\ workers = DefaultWorkers
    /\ batch_size = 1
    /\ pc = "query"
    /\ pos = 0
    /\ batch = <<>>
    /\ futures = <<>>
    /\ collected = 0
    /\ responses = [q \in Texts |-> <<>>]
    /\ results = <<>>
    /\ query_stats = <<>>
    /\ all_results_df = <<>>
    /\ query_stats_df = <<>>
    /\ finished_order = <<>>
    /\ NotLoading

\* The search answers with any result set and evaluate_query runs to its end
\* (lines 126-219).
QueryFinish(i) ==
    /\ pc = "query"
    /\ task[i].state = "searching"
    /\ \E response \in QueryResponses :
          /\ responses' =
                [responses EXCEPT ![TaskRow(i)[get_query_column]] = Append(@, response)]
          /\ task' = [task EXCEPT ![i] =
                         [state |-> "finished",
                          outcome |-> evaluate_query(TaskRow(i), dataset, response)]]
    /\ finished_order' = Append(finished_order, i)
    /\ UNCHANGED <<batched_vars, load_vars, inputs, pc, unique_queries, pos, batch, futures, collected,
                   search_calls, results, query_stats, all_results_df, query_stats_df>>

NextQuery == \E i \in 1..Len(task) : QueryFinish(i)

SpecQuery == InitQuery /\ [][NextQuery]_vars

\* ------------------------------------------------ batched, for any input
\* A consumer iterates batched(iterable, batch_size) over any sequence of rows,
\* repeated rows included; unique_queries stands for the iterable and pos for
\* the iterator `it` (evaluator.py lines 16-27).
InitBatched ==
    /\ unique_queries \in Datasets
    /\ batch_size \in 1..MaxBatch
    /\ pc = "batched"
    /\ pos = 0
    /\ batch = <<>>
    /\ yielded = <<>>
    /\ dataset = DatasetFrame(<<>>, {})
    /\ cpu_count = 1
    /\ workers = DefaultWorkers
    /\ futures = <<>>
    /\ collected = 0
    /\ task = <<>>
    /\ search_calls = [q \in Texts |-> 0]
    /\ responses = [q \in Texts |-> <<>>]
    /\ results = <<>>
    /\ query_stats = <<>>
    /\ all_results_df = <<>>
    /\ query_stats_df = <<>>
    /\ finished_order = <<>>
    /\ items = <<>>
    /\ WORKERS = 0
    /\ IMAGE_BATCH_SIZE = 1
    /\ load_pc = "idle"
    /\ process_futures = <<>>
    /\ all_processed = <<>>
    /\ insert_pos = 0
    /\ inserted_count = 0
    /\ collection = <<>>
    /\ excessive_errors = FALSE
    /\ inserted = 0

\* Lines 26-27: list(islice(it, batch_size)) is not empty and is yielded.
BatchedYield ==
    /\ pc = "batched"
    /\ batch' = NextBatchOf(Len(unique_queries), pos, batch_size)
    /\ batch' # <<>>
    /\ pos' = pos + Len(batch')
    /\ yielded' = Append(yielded, [k \in 1..Len(batch') |-> unique_queries[batch'[k]]])
    /\ UNCHANGED <<load_vars, inputs, pc, unique_queries, futures, collected, task,
                   search_calls, responses, results, query_stats, all_results_df,
                   query_stats_df, finished_order>>

\* Line 26: list(islice(it, batch_size)) is empty, the generator ends.
BatchedStop ==
    /\ pc = "batched"
    /\ batch' = NextBatchOf(Len(unique_queries), pos, batch_size)
    /\ batch' = <<>>
    /\ pc' = "exhausted"
    /\ UNCHANGED <<batched_vars, load_vars, inputs, unique_queries, pos, futures,
                   collected, task, search_calls, responses, results, query_stats,
                   all_results_df, query_stats_df, finished_order>>

NextBatched == BatchedYield \/ BatchedStop

SpecBatched == InitBatched /\ [][NextBatched]_vars

\* ------------------------------------------------------------ load_data
\* What process_item returns for an item whose processing failed.
None == 0

\* INQUIREDataLoader.process_item (lines 42-124) on item k: the object to
\* insert, which stands for the item it was made of, or None when an exception
\* was caught.
process_item(k) == IF items[k] THEN k ELSE None

\* Mutant of process_batch: the processing of a batch stops at its first item
\* that fails.
process_batch_until_failure(b) ==
    LET bad == {k \in 1..Len(b) : process_item(b[k]) = None}
        stop == IF bad = {} THEN Len(b) + 1 ELSE CHOOSE k \in bad : \A l \in bad : k <= l
    IN  [k \in 1..(stop - 1) |-> process_item(b[k])]

\* DataLoader.process_batch (interfaces.py line 282).
process_batch(b) == [k \in 1..Len(b) |-> process_item(b[k])]

\* [p for p in processed_batch if p is not None] (load_data.py lines 95, 114).
NotNone(processed) == SelectSeq(processed, LAMBDA p : p # None)

\* list(batched(dataset, IMAGE_BATCH_SIZE)) (load_data.py lines 34-38): the
\* positions of the items, in consecutive slices.
load_batched(n, size) ==
    LET count == (n + size - 1) \div size
    IN  [b \in 1..count |->
            [k \in 1..Min(size, n - (b - 1) * size) |-> (b - 1) * size + k]]

\* Line 102: the size of the pool that processes the batches.
num_workers == IF WORKERS > 0 THEN WORKERS ELSE cpu_count

InitLoad ==
    /\ items \in UNION {[1..n -> BOOLEAN] : n \in 0..MaxItems}
    /\ WORKERS \in {0 - 1, 0, 1}
    /\ IMAGE_BATCH_SIZE \in 1..MaxImageBatch
    /\ cpu_count \in 1..MaxCpu
    /\ load_pc = "start"
    /\ process_futures = <<>>
    /\ all_processed = <<>>
    /\ insert_pos = 0
    /\ inserted_count = 0
    /\ collection = <<>>
    /\ excessive_errors = FALSE
    /\ inserted = 0
    /\ yielded = <<>>
    /\ dataset = DatasetFrame(<<>>, {})
    /\ workers = DefaultWorkers
    /\ batch_size = 1
    /\ pc = "loading"
    /\ unique_queries = <<>>
    /\ pos = 0
    /\ batch = <<>>
    /\ futures = <<>>
    /\ collected = 0
    /\ task = <<>>
    /\ search_calls = [q \in Texts |-> 0]
    /\ responses = [q \in Texts |-> <<>>]
    /\ results = <<>>
    /\ query_stats = <<>>
    /\ all_results_df = <<>>
    /\ query_stats_df = <<>>
    /\ finished_order = <<>>

\* Lines 89-110: the batches are cut; with WORKERS = -1 they are processed one
\* after the other, otherwise each is submitted to the pool.
LoadStart ==
    /\ load_pc = "start"
    /\ LET B == load_batched(Len(items), IMAGE_BATCH_SIZE)
       IN  /\ process_futures' =
                 [b \in 1..Len(B) |->
                     [batch |-> B[b],
                      state |-> IF WORKERS = 0 - 1 THEN "pending" ELSE "queued",
                      processed |-> <<>>]]
           /\ load_pc' = IF Len(B) = 0 THEN "insert"
                         ELSE IF WORKERS = 0 - 1 THEN "sequential" ELSE "parallel"
    /\ UNCHANGED <<eval_vars, batched_vars, items, WORKERS, IMAGE_BATCH_SIZE,
                   all_processed, insert_pos, inserted_count, collection,
                   excessive_errors, inserted>>

AllGathered(futs) == \A b \in 1..Len(futs) : futs[b].state = "gathered"

\* Lines 93-95: the next batch is processed and its objects are kept.
SequentialBatch ==
    /\ load_pc = "sequential"
    /\ \E b \in 1..Len(process_futures) :
          /\ process_futures[b].state = "pending"
          /\ \A a \in 1..(b - 1) : process_futures[a].state = "gathered"
          /\ LET processed_batch == process_batch(process_futures[b].batch)
             IN  /\ process_futures' =
                       [process_futures EXCEPT ![b].state = "gathered",
                                               ![b].processed = processed_batch]
                 /\ all_processed' = all_processed \o NotNone(processed_batch)
    /\ load_pc' = IF AllGathered(process_futures') THEN "insert" ELSE "sequential"
    /\ UNCHANGED <<eval_vars, batched_vars, items, WORKERS, IMAGE_BATCH_SIZE,
                   insert_pos, inserted_count, collection, excessive_errors, inserted>>

\* A free worker of the pool takes the oldest submitted batch.
WorkerTake(b) ==
    /\ process_futures[b].state = "queued"
    /\ \A a \in 1..(b - 1) : process_futures[a].state # "queued"
    /\ Cardinality({a \in 1..Len(process_futures) :
                       process_futures[a].state = "running"}) < num_workers
    /\ process_futures' = [process_futures EXCEPT ![b].state = "running"]
    /\ UNCHANGED <<eval_vars, batched_vars, items, WORKERS, IMAGE_BATCH_SIZE, load_pc,
                   all_processed, insert_pos, inserted_count, collection,
                   excessive_errors, inserted>>

\* The worker ends process_batch on its batch (load_data.py line 108).
WorkerDone(b) ==
    /\ process_futures[b].state = "running"
    /\ process_futures' =
          [process_futures EXCEPT ![b].state = "done",
                                  ![b].processed = process_batch(process_futures[b].batch)]
    /\ UNCHANGED <<eval_vars, batched_vars, items, WORKERS, IMAGE_BATCH_SIZE, load_pc,
                   all_processed, insert_pos, inserted_count, collection,
                   excessive_errors, inserted>>

\* Lines 112-114: as_completed hands over a batch that is done, in any order.
Gather(b) ==
    /\ load_pc = "parallel"
    /\ process_futures[b].state = "done"
    /\ process_futures' = [process_futures EXCEPT ![b].state = "gathered"]
    /\ all_processed' = all_processed \o NotNone(process_futures[b].processed)
    /\ load_pc' = IF AllGathered(process_futures') THEN "insert" ELSE "parallel"
    /\ UNCHANGED <<eval_vars, batched_vars, items, WORKERS, IMAGE_BATCH_SIZE,
                   insert_pos, inserted_count, collection, excessive_errors, inserted>>

\* WeaviateAdapter.insert_data, lines 528-541: the next entry of the data; None
\* is skipped, an object is added and counted, and the loop is left when the
\* batch reports more than five errors.
InsertObject ==
    /\ load_pc = "insert"
    /\ insert_pos < Len(all_processed)
    /\ insert_pos' = insert_pos + 1
    /\ LET item == all_processed[insert_pos + 1]
       IN  IF item = None
           THEN UNCHANGED <<collection, inserted_count, excessive_errors, inserted, load_pc>>
           ELSE /\ collection' = Append(collection, item)
                /\ inserted_count' = inserted_count + 1
                /\ excessive_errors' \in BOOLEAN
                /\ IF excessive_errors'
                   THEN inserted' = inserted_count' /\ load_pc' = "done"
                   ELSE UNCHANGED <<inserted, load_pc>>
    /\ UNCHANGED <<eval_vars, batched_vars, items, WORKERS, IMAGE_BATCH_SIZE,
                   process_futures, all_processed>>

\* Lines 543-544: the data is exhausted, the counter is returned.
InsertReturn ==
    /\ load_pc = "insert"
    /\ insert_pos = Len(all_processed)
    /\ inserted' = inserted_count
    /\ load_pc' = "done"
    /\ UNCHANGED <<eval_vars, batched_vars, items, WORKERS, IMAGE_BATCH_SIZE,
                   process_futures, all_processed, insert_pos, inserted_count,
                   collection, excessive_errors>>

\* Lines 546-548: the client raises; insert_data logs and returns 0.
InsertRaises ==
    /\ load_pc = "insert"
    /\ inserted' = 0
    /\ load_pc' = "insert_failed"
    /\ UNCHANGED <<eval_vars, batched_vars, items, WORKERS, IMAGE_BATCH_SIZE,
                   process_futures, all_processed, insert_pos, inserted_count,
                   collection, excessive_errors>>

NextLoad ==
    \/ LoadStart
    \/ SequentialBatch
    \/ \E b \in 1..Len(process_futures) : WorkerTake(b)
    \/ \E b \in 1..Len(process_futures) : WorkerDone(b)
    \/ \E b \in 1..Len(process_futures) : Gather(b)
    \/ InsertObject
    \/ InsertReturn
    \/ InsertRaises

SpecLoad == InitLoad /\ [][NextLoad]_vars

\* ------------------------------------------------------------ properties
QueryTexts == {dataset.rows[i][get_query_column] : i \in 1..Len(dataset.rows)}

QueryIds == {dataset.rows[i][get_query_id_column] : i \in 1..Len(dataset.rows)}

\* The first dataset row of a query text.
FirstRow(t) ==
    dataset.rows[CHOOSE i \in 1..Len(dataset.rows) :
                    /\ dataset.rows[i][get_query_column] = t
                    /\ \A j \in 1..(i - 1) : dataset.rows[j][get_query_column] # t]

Ended == pc \in {"done", "raised"}

\* The answer the vector database gave to unit of work i.
AnswerOf(i) == responses[unique_queries[i][get_query_column]]

\* C1: after evaluate_queries returns, the statistics table has as many rows as
\* the dataset has distinct query texts, queries without results included.
C1_OneStatsRowPerQueryText ==
    pc = "done" => Len(query_stats_df) = Cardinality(QueryTexts)

C1_Witness ==
    /\ pc = "done"
    /\ Len(dataset.rows) = 3
    /\ Len(query_stats_df) = 2
    /\ \E k \in 1..Len(query_stats_df) : query_stats_df[k].total_results = 0
    /\ \E k \in 1..Len(query_stats_df) : query_stats_df[k].total_results > 0

\* C2: whatever fails while a query is evaluated, the run ends by returning both
\* tables, with one statistics row per unique query.
C2_FailuresNeverAbortTheRun ==
    Ended => pc = "done" /\ Len(query_stats_df) = Cardinality(QueryTexts)

\* C3: when the search raises, evaluate_query does not raise and its statistics
\* row is the zero row of the query record, the row of a search without results.
C3_SearchFailureGivesZeroRow ==
    \A i \in 1..Len(task) :
        (task[i].state = "finished" /\ AnswerOf(i) = <<SearchRaises>>) =>
            /\ ~task[i].outcome.raised
            /\ task[i].outcome.value.stats =
                  [query_id |-> unique_queries[i].query_id,
                   query |-> unique_queries[i].query,
                   total_results |-> 0,
                   correctly_returned |-> 0,
                   incorrectly_returned |-> 0,
                   relevant_results |-> 0,
                   non_relevant_results |-> 0,
                   accuracy |-> Zero,
                   precision |-> Zero,
                   recall |-> Zero,
                   NDCG |-> Zero,
                   category |-> unique_queries[i].category]
            /\ task[i].outcome.value.stats =
                  evaluate_query(unique_queries[i], dataset, SearchReturns(<<>>)).value.stats

C3_Witness ==
    \E i \in 1..Len(task) :
        /\ task[i].state = "finished"
        /\ AnswerOf(i) = <<SearchRaises>>
        /\ unique_queries[i].category = "b"

\* The answer has at least two records and a ranking column with a missing value.
IllFormedRanking(response) ==
    /\ ~response.raises
    /\ Len(response.results) >= 2
    /\ LET df == to_dataframe(response.results)
       IN  \E c \in Range(score_columns) \cap df.cols, k \in 1..Len(df.rows) :
              df.rows[k][c] = NaN

\* C4: a query whose ranking values are ill-formed gets NDCG 0.0 and still its
\* statistics row with the other counts.
C4_IllFormedRankingGivesZeroNdcg ==
    \A i \in 1..Len(task) :
        (/\ task[i].state = "finished"
         /\ Len(AnswerOf(i)) = 1
         /\ IllFormedRanking(AnswerOf(i)[1])) =>
            /\ ~task[i].outcome.raised
            /\ task[i].outcome.value.stats.NDCG = Zero
            /\ task[i].outcome.value.stats.total_results = Len(AnswerOf(i)[1].results)

\* Rows in ascending order of query_id, rows of one query_id in their order.
SortedByQueryId(rows) ==
    LET n == Len(rows)
        rank(i) == 1 + Cardinality({j \in 1..n :
                        \/ rows[j].query_id < rows[i].query_id
                        \/ rows[j].query_id = rows[i].query_id /\ j < i})
    IN  [p \in 1..n |-> rows[CHOOSE i \in 1..n : rank(i) = p]]

\* C5: the returned statistics table, sorted by query_id, is the one a sequential
\* evaluation of the unique queries gives on the same dataset and answers,
\* whatever the pool size and the interleaving of the workers.
C5_StatsIndependentOfScheduling ==
    pc = "done" =>
        LET U == drop_duplicates(dataset.rows, get_query_column)
            answered == \A i \in 1..Len(U) : Len(responses[U[i].query]) = 1
            run(i) == evaluate_query(U[i], dataset, responses[U[i].query][1])
        IN  /\ answered
            /\ \A i \in 1..Len(U) : ~run(i).raised
            /\ SortedByQueryId(query_stats_df) =
                  SortedByQueryId([i \in 1..Len(U) |-> run(i).value.stats])

C5_Witness ==
    /\ pc = "done"
    /\ cpu_count = 2
    /\ finished_order = <<2, 1>>
    /\ query_stats_df[1].total_results = 2
    /\ query_stats_df[1].NDCG.num > 0
    /\ query_stats_df[2].total_results = 1

\* C6 as claimed: every query_id of the unique queries is in exactly one row.
C6_EveryQueryIdInExactlyOneRow ==
    pc = "done" =>
        \A i \in 1..Len(unique_queries) :
            Cardinality({k \in 1..Len(query_stats_df) :
                query_stats_df[k].query_id = unique_queries[i].query_id}) = 1

\* C6: a query_id is carried by as many rows of the returned statistics table as
\* there are distinct query texts whose first dataset row has that id.
C6_RowsPerQueryId ==
    pc = "done" =>
        \A id \in QueryIds :
            Cardinality({k \in 1..Len(query_stats_df) : query_stats_df[k].query_id = id})
                = Cardinality({t \in QueryTexts : FirstRow(t).query_id = id})

C6_Witness ==
    /\ pc = "done"
    /\ Len(query_stats_df) = 2
    /\ query_stats_df[1].query_id = query_stats_df[2].query_id

\* C7: when the dataset lacks a required column, no search is ever issued and
\* the run does not return.
C7_MissingFieldFailsBeforeDispatch ==
    (/\ Len(dataset.rows) > 0
     /\ ~({get_query_column, get_query_id_column, get_relevance_column}
              \subseteq dataset.cols))
        => /\ \A q \in Texts : search_calls[q] = 0
           /\ pc # "done"

\* C8: on a dataset without rows the run issues no search, does not raise, and
\* returns two empty tables.
C8_EmptyDatasetGivesEmptyTables ==
    Len(dataset.rows) = 0 =>
        /\ pc \in {"start", "batching", "done"}
        /\ \A q \in Texts : search_calls[q] = 0
        /\ pc = "batching" => pos = Len(unique_queries) /\ results = <<>>
        /\ pc = "done" => all_results_df = <<>> /\ query_stats_df = <<>>

C8_Witness == Len(dataset.rows) = 0 /\ pc = "done"

\* C9 as claimed: the pool size is WORKERS when positive, else the cpu count.
ClaimedPoolSize == IF workers > 0 THEN workers ELSE cpu_count

C10_EveryQuerySearchedExactlyOnce ==
    /\ \A q \in Texts : search_calls[q] <= 1
    /\ Ended => \A q \in QueryTexts : search_calls[q] = 1

\* ------------------------------------------- properties of one statistics row
\* Unit of work i ended with a statistics row.
HasStats(i) == task[i].state = "finished" /\ ~task[i].outcome.raised

StatsOf(i) == task[i].outcome.value.stats

\* The records the search of unit of work i returned (none when it raised).
ReturnedRecords(i) ==
    IF AnswerOf(i)[1].raises THEN <<>> ELSE AnswerOf(i)[1].results

\* C11: in every statistics row the results split into correctly and incorrectly
\* returned ones and into relevant and non-relevant ones, total_results is the
\* number of returned records, and none of the five counts is negative.
C11_CountsPartitionTotal ==
    \A i \in 1..Len(task) :
        HasStats(i) =>
            LET s == StatsOf(i)
            IN  /\ s.total_results = Len(ReturnedRecords(i))
                /\ s.correctly_returned + s.incorrectly_returned = s.total_results
                /\ s.relevant_results + s.non_relevant_results = s.total_results
                /\ s.total_results >= 0
                /\ s.correctly_returned >= 0
                /\ s.incorrectly_returned >= 0
                /\ s.relevant_results >= 0
                /\ s.non_relevant_results >= 0

C11_Witness ==
    \E i \in 1..Len(task) :
        /\ HasStats(i)
        /\ StatsOf(i).total_results = 3
        /\ StatsOf(i).correctly_returned = 2
        /\ StatsOf(i).relevant_results = 1

\* A fraction between 0.0 and 1.0.
InUnitInterval(r) == r.den > 0 /\ 0 <= r.num /\ r.num <= r.den

\* C12: in every statistics row precision, recall, accuracy and NDCG lie
\* between 0.0 and 1.0, whatever items the search returned.
C12_RatesWithinUnitInterval ==
    \A i \in 1..Len(task) :
        HasStats(i) =>
            /\ InUnitInterval(StatsOf(i).precision)
            /\ InUnitInterval(StatsOf(i).recall)
            /\ InUnitInterval(StatsOf(i).accuracy)
            /\ InUnitInterval(StatsOf(i).NDCG)

\* The dataset has no relevant row for the query id of unit of work i.
NoRelevantRowInDataset(i) ==
    \A k \in 1..Len(dataset.rows) :
        dataset.rows[k][get_query_id_column] = unique_queries[i][get_query_id_column]
            => dataset.rows[k][get_relevance_column] = 0

\* C13: when the dataset holds no relevant row for the query's id, the recall of
\* its statistics row is 0.0 whatever the search returned, and the evaluation
\* does not fail on the division.
C13_RecallZeroWithoutRelevantRows ==
    \A i \in 1..Len(task) :
        (task[i].state = "finished" /\ NoRelevantRowInDataset(i)) =>
            /\ task[i].outcome.raised => task[i].outcome.exc = "ValueError"
            /\ HasStats(i) => StatsOf(i).recall = [num |-> 0, den |-> 1]

C13_Witness ==
    \E i \in 1..Len(task) :
        /\ HasStats(i)
        /\ NoRelevantRowInDataset(i)
        /\ StatsOf(i).relevant_results = 2
        /\ StatsOf(i).total_results = 3
        /\ StatsOf(i).recall = [num |-> 0, den |-> 1]

\* The dataset rows of the query id of unit of work i that are labelled relevant
\* (the labels are 0 or 1, so their number is the sum of the labels).
RelevantRowsOf(i) ==
    {k \in 1..Len(dataset.rows) :
        /\ dataset.rows[k][get_query_id_column] = unique_queries[i][get_query_id_column]
        /\ dataset.rows[k][get_relevance_column] = 1}

\* C14: the recall of a statistics row is relevant_results divided by the number
\* of relevant rows the whole dataset holds for the query's id, returned by the
\* search or not (0.0 when there is none).
C14_RecallOverWholeDataset ==
    \A i \in 1..Len(task) :
        HasStats(i) =>
            LET s == StatsOf(i)
                relevant_in_dataset == Cardinality(RelevantRowsOf(i))
            IN  /\ s.recall.den > 0
                /\ IF relevant_in_dataset = 0 THEN s.recall.num = 0
                   ELSE s.recall.num * relevant_in_dataset
                            = s.relevant_results * s.recall.den

C14_Witness ==
    \E i \in 1..Len(task) :
        /\ HasStats(i)
        /\ Cardinality(RelevantRowsOf(i)) = 2
        /\ StatsOf(i).total_results = 3
        /\ StatsOf(i).relevant_results = 1
        /\ StatsOf(i).recall = [num |-> 1, den |-> 2]

\* C15: a search that returned no record or one record gives NDCG 0.0, and a
\* secondary NDCG, were it reported, would be 0.0 too, whatever the label and
\* the scores of the record.
C15_ShortResultSetGivesZeroNdcg ==
    \A i \in 1..Len(task) :
        (task[i].state = "finished" /\ Len(ReturnedRecords(i)) <= 1) =>
            /\ HasStats(i)
            /\ StatsOf(i).NDCG = [num |-> 0, den |-> 1]
            /\ "secondary_NDCG" \in DOMAIN StatsOf(i) =>
                  StatsOf(i).secondary_NDCG = [num |-> 0, den |-> 1]

C15_Witness ==
    \E i \in 1..Len(task) :
        /\ HasStats(i)
        /\ Len(ReturnedRecords(i)) = 1
        /\ {get_relevance_column, "rerank_score", "score"}
               \subseteq DOMAIN ReturnedRecords(i)[1]
        /\ ReturnedRecords(i)[1][get_relevance_column] = 1
        /\ StatsOf(i).relevant_results = 1
        /\ StatsOf(i).NDCG = [num |-> 0, den |-> 1]

\* ------------------------------------------------ properties of the dispatch
\* The position of the first dataset row of a query text.
FirstIndex(t) ==
    CHOOSE k \in 1..Len(dataset.rows) :
        /\ dataset.rows[k][get_query_column] = t
        /\ \A j \in 1..(k - 1) : dataset.rows[j][get_query_column] # t

\* C16: the unique queries are the first dataset rows of the distinct query
\* texts, in the order of these rows; a unit of work is bound to its row, and
\* the query id and the metadata of its statistics row are those of that row.
C16_UniqueQueriesAreFirstRowsInOrder ==
    pc # "start" =>
        /\ {unique_queries[i][get_query_column] : i \in 1..Len(unique_queries)}
              = QueryTexts
        /\ \A i \in 1..Len(unique_queries) :
              unique_queries[i]
                  = dataset.rows[FirstIndex(unique_queries[i][get_query_column])]
        /\ \A i, j \in 1..Len(unique_queries) :
              i < j => FirstIndex(unique_queries[i][get_query_column])
                          < FirstIndex(unique_queries[j][get_query_column])
        /\ Len(task) = Len(unique_queries)
        /\ \A i \in 1..Len(task) :
              HasStats(i) =>
                  LET first == dataset.rows[FirstIndex(StatsOf(i).query)]
                  IN  /\ TaskRow(i) = first
                      /\ StatsOf(i).query_id = first[get_query_id_column]
                      /\ StatsOf(i).category = first.category

C16_Witness ==
    /\ pc = "done"
    /\ Len(dataset.rows) = 3
    /\ dataset.rows[1][get_query_column] = "dog"
    /\ dataset.rows[2][get_query_column] = "cat"
    /\ dataset.rows[3][get_query_column] = "cat"
    /\ dataset.rows[3][get_query_id_column] # dataset.rows[2][get_query_id_column]
    /\ dataset.rows[3].category # dataset.rows[2].category
    /\ Len(query_stats_df) = 2
    /\ query_stats_df[1].query = "dog"
    /\ query_stats_df[2].query_id = dataset.rows[2][get_query_id_column]
    /\ query_stats_df[2].category = dataset.rows[2].category

\* The evaluation of the first row of every query text, one after the other, on
\* the answers the vector database gave: a function of the dataset and the
\* answers alone.
SequentialRun ==
    LET U == [i \in 1..Len(unique_queries) |->
                 dataset.rows[FirstIndex(unique_queries[i][get_query_column])]]
    IN  [i \in 1..Len(U) |-> evaluate_query(U[i], dataset, AnswerOf(i)[1])]

ResultsOf(i) == task[i].outcome.value.df

\* The positions in score_columns of the columns the results of unit of work i
\* have.
PresentScoreColumns(i) ==
    {k \in 1..Len(score_columns) : score_columns[k] \in ResultsOf(i).cols}

\* The least position of a set of positions, 0 for the empty set.
Least(S) == IF S = {} THEN 0 ELSE CHOOSE k \in S : \A l \in S : k <= l

PrimaryColumn(i) == Least(PresentScoreColumns(i))

\* C18: a reported secondary NDCG is the NDCG on the first present column of
\* score_columns other than the column of the primary NDCG; it is never taken
\* on the primary's column.
C18_SecondaryOnDifferentColumn ==
    \A i \in 1..Len(task) :
        (HasStats(i) /\ "secondary_NDCG" \in DOMAIN StatsOf(i)) =>
            LET other == Least(PresentScoreColumns(i) \ {PrimaryColumn(i)})
            IN  /\ other # 0
                /\ Returned(StatsOf(i).secondary_NDCG) =
                      compute_ndcg(ResultsOf(i), get_relevance_column,
                                   score_columns[other])

\* C19: when the results have at most one of the score columns, the statistics
\* row has no secondary NDCG field.
C19_NoSecondaryFieldWithoutSecondColumn ==
    \A i \in 1..Len(task) :
        (HasStats(i) /\ Cardinality(PresentScoreColumns(i)) <= 1) =>
            "secondary_NDCG" \notin DOMAIN StatsOf(i)

\* What compute_ndcg gives on the results of unit of work i ranked by column col.
NdcgOn(i, col) == compute_ndcg(ResultsOf(i), get_relevance_column, col)

\* C20: the NDCG of a query with results is the NDCG on the first column of
\* score_columns, in their order, that the results have, and 0.0 when they have
\* none of them.
C20_PrimaryOnFirstPresentColumn ==
    \A i \in 1..Len(task) :
        (HasStats(i) /\ StatsOf(i).total_results > 0) =>
            Returned(StatsOf(i).NDCG) =
                IF PrimaryColumn(i) = 0 THEN Returned([num |-> 0, den |-> 1])
                ELSE NdcgOn(i, score_columns[PrimaryColumn(i)])

C20_Witness ==
    \E i \in 1..Len(task) :
        /\ HasStats(i)
        /\ StatsOf(i).total_results = 2
        /\ {"rerank_score", "score"} \subseteq ResultsOf(i).cols
        /\ NdcgOn(i, "rerank_score") # NdcgOn(i, "score")
        /\ Returned(StatsOf(i).NDCG) = NdcgOn(i, "rerank_score")
        /\ StatsOf(i).NDCG.num > 0

\* ------------------------------------------------- properties of the NDCG
\* The orders in which n items can be ranked.
Rankings(n) == {r \in [1..n -> 1..n] : \A a, b \in 1..n : a # b => r[a] # r[b]}

\* The DCG of the rows taken in the order r: the label of the p-th item is
\* discounted by 1 / log2(p + 1).
PositionalDcg(rows, r) ==
    Sum([p \in 1..Len(rows) |-> rows[r[p]][get_relevance_column] * Discount(p)],
        1..Len(rows))

\* The ideal DCG: the DCG of the rows in an order of descending label.
IdealDcg(rows) ==
    PositionalDcg(rows, CHOOSE r \in Rankings(Len(rows)) :
        \A p, q \in 1..Len(rows) :
            p < q => rows[r[p]][get_relevance_column] >= rows[r[q]][get_relevance_column])

\* The orders of the rows by descending value of col.
DescendingOrders(rows, col) ==
    {r \in Rankings(Len(rows)) :
        \A p, q \in 1..Len(rows) : p < q => rows[r[p]][col] >= rows[r[q]][col]}

\* The descending order in which rows of equal value keep their given order.
StableOrder(rows, col) ==
    CHOOSE r \in DescendingOrders(rows, col) :
        \A p, q \in 1..Len(rows) :
            (p < q /\ rows[r[p]][col] = rows[r[q]][col]) => r[p] < r[q]

\* Unit of work i ended with a statistics row for two or more records that carry
\* a score column and a relevance label each.
Ranked(i) ==
    /\ HasStats(i)
    /\ StatsOf(i).total_results >= 2
    /\ PrimaryColumn(i) # 0
    /\ get_relevance_column \in ResultsOf(i).cols

\* Two records of equal primary score and different label.
TiedAcrossLabels(i) ==
    LET rows == ResultsOf(i).rows
        col == score_columns[PrimaryColumn(i)]
    IN  \E a, b \in 1..Len(rows) :
            /\ rows[a][col] = rows[b][col]
            /\ rows[a][get_relevance_column] # rows[b][get_relevance_column]

\* C21 as claimed: the NDCG is the one of the stable descending order, in which
\* tied items keep the order the search returned them in.
C21_NdcgOfStableOrder ==
    \A i \in 1..Len(task) :
        Ranked(i) =>
            LET rows == ResultsOf(i).rows
                col == score_columns[PrimaryColumn(i)]
            IN  StatsOf(i).NDCG =
                    Ratio(PositionalDcg(rows, StableOrder(rows, col)), IdealDcg(rows))

\* C21: the NDCG is the mean, over all descending orders of the records by
\* score, of the DCG of the order, divided by the ideal DCG: tied items share
\* the positions of their group, and the order the search returned them in has
\* no effect; without ties it is the NDCG of the one descending order.
C21_NdcgAveragesTies ==
    \A i \in 1..Len(task) :
        Ranked(i) =>
            LET rows == ResultsOf(i).rows
                col == score_columns[PrimaryColumn(i)]
                D == DescendingOrders(rows, col)
                ideal == IdealDcg(rows)
            IN  /\ StatsOf(i).NDCG =
                      Ratio(Sum([r \in D |-> PositionalDcg(rows, r)], D),
                            Cardinality(D) * ideal)
                /\ ~TiedAcrossLabels(i) =>
                      StatsOf(i).NDCG =
                          Ratio(PositionalDcg(rows, StableOrder(rows, col)), ideal)

C21_Witness ==
    \E i \in 1..Len(task) :
        /\ Ranked(i)
        /\ TiedAcrossLabels(i)
        /\ StatsOf(i).total_results = 2
        /\ ResultsOf(i).rows[1][get_relevance_column] = 1
        /\ StatsOf(i).NDCG = [num |-> 163093, den |-> 200000]

\* The records of unit of work i, in the stable descending order of their
\* primary score, have every relevant record before every irrelevant one.
InIdealOrder(i) ==
    LET rows == ResultsOf(i).rows
        r == StableOrder(rows, score_columns[PrimaryColumn(i)])
    IN  \A p, q \in 1..Len(rows) :
            p < q => rows[r[p]][get_relevance_column] >= rows[r[q]][get_relevance_column]

\* Every relevant record of unit of work i has a higher primary score than every
\* irrelevant one, and there is a relevant record.
RelevantStrictlyAbove(i) ==
    LET rows == ResultsOf(i).rows
        col == score_columns[PrimaryColumn(i)]
    IN  /\ \E a \in 1..Len(rows) : rows[a][get_relevance_column] = 1
        /\ \A a, b \in 1..Len(rows) :
              (rows[a][get_relevance_column] = 1 /\ rows[b][get_relevance_column] = 0)
                  => rows[a][col] > rows[b][col]

\* C22 as claimed: a result set whose records, ranked by the chosen score
\* column, are in ideal relevance order has NDCG 1.0 (read for the result sets
\* an NDCG is defined for: two or more records, one of them relevant).
C22_IdealOrderGivesOne ==
    \A i \in 1..Len(task) :
        (/\ Ranked(i)
         /\ StatsOf(i).relevant_results > 0
         /\ InIdealOrder(i)) =>
            StatsOf(i).NDCG = [num |-> 1, den |-> 1]

\* C22: a result set of two or more records with a relevant record, in which
\* every relevant record scores strictly higher than every irrelevant one, has
\* NDCG 1.0, in whatever order the search returned the records.
C22_SeparatedScoresGiveOne ==
    \A i \in 1..Len(task) :
        (Ranked(i) /\ RelevantStrictlyAbove(i)) =>
            StatsOf(i).NDCG = [num |-> 1, den |-> 1]

C22_Witness ==
    \E i \in 1..Len(task) :
        /\ Ranked(i)
        /\ RelevantStrictlyAbove(i)
        /\ StatsOf(i).total_results = 3
        /\ StatsOf(i).relevant_results = 1
        /\ ResultsOf(i).rows[1][get_relevance_column] = 0
        /\ StatsOf(i).NDCG = [num |-> 1, den |-> 1]

\* ------------------------------------------------ properties of the threads
\* The step is one of a worker thread: a unit of work starts or ends.
WorkerStep(i) ==
    /\ i \in 1..Len(task)
    /\ Len(task') = Len(task)
    /\ task'[i] # task[i]
    /\ task'[i].state \in {"searching", "finished"}

\* What the dispatching thread owns: its position and the accumulators.
dispatcher_vars ==
    <<pc, pos, batch, futures, collected, results, query_stats,
      all_results_df, query_stats_df>>

\* C23: the dataset and, once computed, the unique query rows are never written;
\* a step of a worker writes the state and outcome of its own unit of work only
\* and leaves the accumulators alone; a step of the dispatching thread never
\* writes the outcome of a unit of work, and the accumulators only grow, by the
\* outcome the dispatcher collects.
C23_NoStructureWrittenByTwoThreads ==
    [][ /\ dataset' = dataset
        /\ pc # "start" => unique_queries' = unique_queries
        /\ \A i \in 1..Len(task) :
              WorkerStep(i) =>
                  /\ UNCHANGED dispatcher_vars
                  /\ \A j \in 1..Len(task) : j # i => task'[j] = task[j]
        /\ (~ \E i \in 1..Len(task) : WorkerStep(i)) =>
              \A i \in 1..Len(task) :
                  Len(task') = Len(task) => task'[i].outcome = task[i].outcome
        /\ (results' # results \/ query_stats' # query_stats) =>
              /\ pc = "collect"
              /\ results' = Append(results, task[futures[collected + 1]].outcome.value.df)
              /\ query_stats' =
                    Append(query_stats, task[futures[collected + 1]].outcome.value.stats)
      ]_vars

C23_Witness ==
    /\ pc = "collect"
    /\ Len(task) = 2
    /\ task[1].state = "searching"
    /\ task[2].state = "finished"
    /\ ~task[2].outcome.raised
    /\ task[2].outcome.value.stats.total_results = 2
    /\ results = <<>>

\* ------------------------------------------- properties of the results table
\* The number of records the searches of the units of work before i returned.
RecordsBefore(i) ==
    Sum([j \in 1..Len(task) |-> Len(ReturnedRecords(j))], 1..(i - 1))

\* C24: the results table a run returns holds, for every unique query and every
\* record its search returned, exactly one row: the record itself, tagged with
\* the query id and the text of that query; it holds no other row, whatever the
\* order in which the workers ended.
C24_ResultRowsAreTaggedSearchItems ==
    pc = "done" =>
        /\ Len(all_results_df) = RecordsBefore(Len(task) + 1)
        /\ \A i \in 1..Len(task) :
              \A k \in 1..Len(ReturnedRecords(i)) :
                  LET row == all_results_df[RecordsBefore(i) + k]
                      item == ReturnedRecords(i)[k]
                      first == dataset.rows[FirstIndex(unique_queries[i][get_query_column])]
                  IN  /\ \A c \in DOMAIN item : row[c] = item[c]
                      /\ row["queried_on_query_id"] = first[get_query_id_column]
                      /\ row["queried_on_query"] = first[get_query_column]

C24_Witness ==
    /\ pc = "done"
    /\ cpu_count = 2
    /\ finished_order = <<2, 1>>
    /\ Len(all_results_df) = 4
    /\ all_results_df[1]["queried_on_query"] # all_results_df[4]["queried_on_query"]
    /\ \E k \in 1..4 :
          all_results_df[k][get_query_id_column] # all_results_df[k]["queried_on_query_id"]

\* ------------------------------------------------- properties of the run
\* C25: when evaluate_queries has ended, every unique query has been submitted
\* to the pool, evaluated, and had its result collected.
C25_EndsWithEveryQueryCollected ==
    Ended =>
        /\ Len(task) = Cardinality(QueryTexts)
        /\ \A i \in 1..Len(task) : task[i].state = "finished"
        /\ Len(results) = Len(task)
        /\ Len(query_stats) = Len(task)

\* C26: the rows of the returned statistics table, and the blocks of rows of the
\* returned results table, follow the order in which the query texts first occur
\* in the dataset, whatever the order in which the workers ended.
C26_TablesInFirstOccurrenceOrder ==
    pc = "done" =>
        /\ \A k, l \in 1..Len(query_stats_df) :
              k < l => FirstIndex(query_stats_df[k].query)
                          < FirstIndex(query_stats_df[l].query)
        /\ \A k, l \in 1..Len(all_results_df) :
              k < l => FirstIndex(all_results_df[k]["queried_on_query"])
                          <= FirstIndex(all_results_df[l]["queried_on_query"])

C26_Witness ==
    /\ pc = "done"
    /\ batch_size = 2
    /\ finished_order = <<2, 1>>
    /\ dataset.rows[1][get_query_column] = "dog"
    /\ Len(query_stats_df) = 2
    /\ query_stats_df[1].query = "dog"
    /\ Len(all_results_df) = 3
    /\ all_results_df[1]["queried_on_query"] = "dog"
    /\ all_results_df[3]["queried_on_query"] = "cat"

\* The units of work handed to the pool.
Submitted == {i \in 1..Len(task) : task[i].state # "unsubmitted"}

\* C27: a query of a later batch is handed to the pool, and so starts, only
\* when the results of all queries of the batches before it are collected; the
\* queries submitted and not yet collected never outnumber the batch size.
C27_BatchesOneAfterAnother ==
    /\ \A i \in Submitted :
          Len(results) >= ((i - 1) \div batch_size) * batch_size
    /\ Cardinality(Submitted) - Len(results) <= batch_size
    /\ Len(results) <= Cardinality(Submitted)

C27_Witness ==
    /\ batch_size = 1
    /\ cpu_count = 2
    /\ Len(task) = 2
    /\ Len(results) = 1
    /\ task[1].state = "finished"
    /\ task[2].state = "searching"

\* ---------------------------------------- properties of the secondary NDCG
\* The column lines 191-194 compute the secondary NDCG on: the first present
\* column of score_columns after its first entry; 0 when there is none.
SecondaryColumn(i) == Least(PresentScoreColumns(i) \ {1})

RECURSIVE Flatten(_)
Flatten(seqs) == IF seqs = <<>> THEN <<>> ELSE seqs[1] \o Flatten(Tail(seqs))

\* C30: the batches batched yields, put one after the other, are the input read
\* so far, and the whole input once the generator has ended; no batch is empty
\* or longer than batch_size, every batch but the last one has batch_size items,
\* and an empty input yields no batch.
C30_BatchedPartitionsTheInput ==
    /\ pos <= Len(unique_queries)
    /\ Flatten(yielded) = SubSeq(unique_queries, 1, pos)
    /\ \A k \in 1..Len(yielded) :
          /\ Len(yielded[k]) >= 1
          /\ Len(yielded[k]) <= batch_size
          /\ k < Len(yielded) => Len(yielded[k]) = batch_size
    /\ unique_queries = <<>> => yielded = <<>>
    /\ pc = "exhausted" => Flatten(yielded) = unique_queries

C30_Witness ==
    /\ pc = "exhausted"
    /\ batch_size = 2
    /\ Len(unique_queries) = 3
    /\ unique_queries[1] = unique_queries[3]
    /\ Len(yielded) = 2
    /\ Len(yielded[1]) = 2
    /\ Len(yielded[2]) = 1

\* ------------------------------------------------ properties of load_data
FailedItems == {k \in 1..Len(items) : ~items[k]}

ProcessableItems == {k \in 1..Len(items) : items[k]}

\* How often x occurs in the sequence s.
Occurrences(s, x) == Cardinality({p \in 1..Len(s) : s[p] = x})

\* C29: an item whose processing failed is never handed on nor added to the
\* collection nor counted; every other item of its batch and of every other
\* batch is processed, is handed to insert_data exactly once, and is added to
\* the collection exactly once when the insertion runs to its end.
C29_FailedItemNeitherInsertedNorBlocking ==
    /\ \A k \in FailedItems :
          /\ Occurrences(all_processed, k) = 0
          /\ Occurrences(collection, k) = 0
    /\ Occurrences(all_processed, None) = 0
    /\ Occurrences(collection, None) = 0
    /\ inserted_count = Len(collection)
    /\ inserted_count <= Cardinality(ProcessableItems)
    /\ inserted \in {0, inserted_count}
    /\ \A b \in 1..Len(process_futures) :
          process_futures[b].state \in {"done", "gathered"} =>
              /\ Len(process_futures[b].processed) = Len(process_futures[b].batch)
              /\ \A k \in 1..Len(process_futures[b].batch) :
                    process_futures[b].processed[k] =
                        IF items[process_futures[b].batch[k]]
                        THEN process_futures[b].batch[k] ELSE None
    /\ load_pc \in {"insert", "insert_failed", "done"} =>
          \A k \in ProcessableItems : Occurrences(all_processed, k) = 1
    /\ (load_pc = "done" /\ ~excessive_errors) =>
          /\ \A k \in ProcessableItems : Occurrences(collection, k) = 1
          /\ inserted = Cardinality(ProcessableItems)

C29_Witness ==
    /\ load_pc = "done"
    /\ WORKERS = 0
    /\ cpu_count = 2
    /\ IMAGE_BATCH_SIZE = 2
    /\ items = <<FALSE, TRUE, TRUE>>
    /\ all_processed = <<3, 2>>
    /\ collection = <<3, 2>>
    /\ inserted = 2

====
